---- MODULE Spec2Model ----
(***************************************************************************)
(* Model of src/app.py (Finance Terminal).                                 *)
(*                                                                         *)
(*   - QuantEngine.fetch_terminal_bundle behind @st.cache_data(ttl=3600)   *)
(*     and its caller main(): specifications Spec (several browser         *)
(*     sessions, each running the script in its own thread) and SpecSeq    *)
(*     (one session, calls strictly one after the other).                  *)
(*   - main(), KPI price tile and the DCF tab: specification SpecDCF.      *)
(*   - QuantEngine.compute_ratios and the ratio tab: specification         *)
(*     SpecRatios.                                                         *)
(*                                                                         *)
(* Units.  Time is in seconds.  Slider rates are in basis points           *)
(* (1 bp = 0.01 %, the float slider's step).  Money is in whole units and  *)
(* quotients are fixed point (Div), ratios in hundredths as round(x, 2).   *)
(***************************************************************************)
EXTENDS Integers, FiniteSets, Sequences, TLC

VARIABLES
    \* ---- cache / fetch (Spec, SpecSeq)
    now,        \* the cache's clock, seconds
    hasLock,    \* whether the installed Streamlit computes under a lock
    lock,       \* session holding the compute lock, 0 when free
    cache,      \* st.cache_data's store: ticker -> entry
    loads,      \* ticker -> number of upstream loads started so far
    lastOk,     \* ticker -> the last load that returned a bundle
    pc,         \* session -> position in main()
    req,        \* session -> ticker typed in the sidebar
    callAt,     \* session -> clock when fetch_terminal_bundle was called
    seenEntry,  \* session -> cache entry of req at the call
    seenOk,     \* session -> lastOk of req at the call
    invoked,    \* session -> upstream loads this call started
    cause,      \* session -> what the upstream did in this call
    result,     \* session -> what fetch_terminal_bundle returned
    view,       \* session -> what main() showed for the last call
    \* ---- DCF tab (SpecDCF)
    dpc,        \* position in main() from the KPI tiles to the DCF tab
    dinfo,      \* bundle['info'] fields the DCF reads
    t_growth,   \* "Terminal Growth (%)" slider, basis points
    wacc,       \* "WACC / Discount Rate (%)" slider, basis points
    price,      \* main()'s local price
    dcf,        \* what the DCF tab produced
    \* ---- ratio tab (SpecRatios)
    rpc,        \* position in the ratio tab
    rinfo,      \* bundle['info'] fields compute_ratios reads
    rstmt,      \* bundle['statements'] rows compute_ratios reads
    r_data,     \* compute_ratios' return value
    shown       \* metric tiles the ratio tab rendered

cacheVars == <<now, hasLock, lock, cache, loads, lastOk, pc, req, callAt,
               seenEntry, seenOk, invoked, cause, result, view>>
dcfVars == <<dpc, dinfo, t_growth, wacc, price, dcf>>
ratioVars == <<rpc, rinfo, rstmt, r_data, shown>>
vars == <<cacheVars, dcfVars, ratioVars>>

----------------------------------------------------------------------------
(* Bounds of the model *)

\* @st.cache_data(ttl=3600), seconds
TTL == 3600

\* clock steps before the clock stops
MaxTicks == 4
\* upstream loads per ticker
MaxLoads == 3
\* concurrent browser sessions
NSessions == 2

Sessions == 1..NSessions
\* the claims are per key; one ticker keeps the concurrent state space small
Tickers == {"AAPL"}
\* steps of the clock: half a ttl, and a second less
Deltas == {TTL \div 2 - 1, TTL \div 2}

----------------------------------------------------------------------------
(* st.cache_data(ttl=3600) around fetch_terminal_bundle *)

NoEntry == [kind |-> "absent", value |-> [kind |-> "None", ver |-> 0], at |-> 0]
NoneValue == [kind |-> "None", ver |-> 0]
Bundle(n) == [kind |-> "bundle", ver |-> n]
\* a call that has not returned yet; n numbers the upstream load it runs
Pending(n) == [kind |-> "pending", ver |-> n]
NoCall == Pending(0)
NoOk == [set |-> FALSE, bundle |-> NoneValue, at |-> 0]

\* what the upstream does on one load: data, an empty price history (the
\* provider's answer for an unknown symbol), an exception (transport, HTTP)
Upstream == {"ok", "empty_history", "exception"}

\* the entry is served while the clock is before stored-at + ttl
IsFreshNoExpiry(e, t) == e.kind = "entry"
IsFresh(e, t) == e.kind = "entry" /\ t < e.at + TTL

\* the body of fetch_terminal_bundle: its return value for an upstream outcome
FetchBody(outcome, n) == IF outcome = "ok" THEN Bundle(n) ELSE NoneValue

\* the cache stores whatever the function returns, None included
StoreResult(k, v, t) == [cache EXCEPT ![k] = [kind |-> "entry", value |-> v, at |-> t]]

InitCache ==
    /\ now = 0
    /\ hasLock \in BOOLEAN
    /\ lock = 0
    /\ cache = [k \in Tickers |-> NoEntry]
    /\ loads = [k \in Tickers |-> 0]
    /\ lastOk = [k \in Tickers |-> NoOk]
    /\ pc = [s \in Sessions |-> "idle"]
    /\ req = [s \in Sessions |-> "AAPL"]
    /\ callAt = [s \in Sessions |-> 0]
    /\ seenEntry = [s \in Sessions |-> NoEntry]
    /\ seenOk = [s \in Sessions |-> NoOk]
    /\ invoked = [s \in Sessions |-> 0]
    /\ cause = [s \in Sessions |-> "none"]
    /\ result = [s \in Sessions |-> NoCall]
    /\ view = [s \in Sessions |-> "blank"]

\* main() line 100: the call, and the cache's first lookup
Call(s, k) ==
    /\ pc[s] = "idle"
    /\ req' = [req EXCEPT ![s] = k]
    /\ callAt' = [callAt EXCEPT ![s] = now]
    /\ seenEntry' = [seenEntry EXCEPT ![s] = cache[k]]
    /\ seenOk' = [seenOk EXCEPT ![s] = lastOk[k]]
    /\ invoked' = [invoked EXCEPT ![s] = 0]
    /\ cause' = [cause EXCEPT ![s] = "none"]
    /\ IF IsFresh(cache[k], now)
       THEN /\ result' = [result EXCEPT ![s] = cache[k].value]
            /\ pc' = [pc EXCEPT ![s] = "returned"]
       ELSE /\ result' = [result EXCEPT ![s] = NoCall]
            /\ pc' = [pc EXCEPT ![s] = "miss"]
    /\ UNCHANGED <<now, hasLock, lock, cache, loads, lastOk, view>>
    /\ UNCHANGED <<dcfVars, ratioVars>>

\* a miss where the library computes under its lock: take the lock, look
\* again, and either return what another thread stored or start the load
LockedMiss(s) ==
    /\ pc[s] = "miss"
    /\ hasLock
    /\ lock = 0
    /\ IF IsFresh(cache[req[s]], now)
       THEN /\ result' = [result EXCEPT ![s] = cache[req[s]].value]
            /\ pc' = [pc EXCEPT ![s] = "returned"]
            /\ UNCHANGED <<lock, loads, invoked>>
       ELSE /\ loads[req[s]] < MaxLoads
            /\ lock' = s
            /\ loads' = [loads EXCEPT ![req[s]] = @ + 1]
            /\ invoked' = [invoked EXCEPT ![s] = @ + 1]
            /\ pc' = [pc EXCEPT ![s] = "loading"]
            /\ result' = [result EXCEPT ![s] = Pending(loads'[req[s]])]
    /\ UNCHANGED <<now, hasLock, cache, lastOk, req, callAt, seenEntry, seenOk,
                   cause, view>>
    /\ UNCHANGED <<dcfVars, ratioVars>>

\* a miss where the library has no such lock: the function is called at once
UnlockedMiss(s) ==
    /\ pc[s] = "miss"
    /\ ~hasLock
    /\ loads[req[s]] < MaxLoads
    /\ loads' = [loads EXCEPT ![req[s]] = @ + 1]
    /\ invoked' = [invoked EXCEPT ![s] = @ + 1]
    /\ pc' = [pc EXCEPT ![s] = "loading"]
    /\ result' = [result EXCEPT ![s] = Pending(loads'[req[s]])]
    /\ UNCHANGED <<now, hasLock, lock, cache, lastOk, req, callAt, seenEntry,
                   seenOk, cause, view>>
    /\ UNCHANGED <<dcfVars, ratioVars>>

\* fetch_terminal_bundle returns; the cache stores the value and the caller
\* gets it
FinishLoad(s, outcome) ==
    /\ pc[s] = "loading"
    /\ LET k == req[s]
           v == FetchBody(outcome, result[s].ver)
       IN /\ cache' = StoreResult(k, v, now)
          /\ lastOk' = IF v.kind = "bundle"
                       THEN [lastOk EXCEPT ![k] = [set |-> TRUE, bundle |-> v, at |-> now]]
                       ELSE lastOk
          /\ result' = [result EXCEPT ![s] = v]
    /\ cause' = [cause EXCEPT ![s] = outcome]
    /\ lock' = IF lock = s THEN 0 ELSE lock
    /\ pc' = [pc EXCEPT ![s] = "returned"]
    /\ UNCHANGED <<now, hasLock, loads, req, callAt, seenEntry, seenOk, invoked, view>>
    /\ UNCHANGED <<dcfVars, ratioVars>>

\* main() lines 102-106: "if not bundle" shows the rejection and returns,
\* else the page is rendered; the script then waits for the next rerun
Branch(s) ==
    /\ pc[s] = "returned"
    /\ view' = [view EXCEPT ![s] = IF result[s].kind = "None"
                                   THEN "symbol_rejected" ELSE "rendered"]
    /\ pc' = [pc EXCEPT ![s] = "idle"]
    /\ callAt' = [callAt EXCEPT ![s] = 0]
    /\ seenEntry' = [seenEntry EXCEPT ![s] = NoEntry]
    /\ seenOk' = [seenOk EXCEPT ![s] = NoOk]
    /\ invoked' = [invoked EXCEPT ![s] = 0]
    /\ cause' = [cause EXCEPT ![s] = "none"]
    /\ result' = [result EXCEPT ![s] = NoCall]
    /\ UNCHANGED <<now, hasLock, lock, cache, loads, lastOk, req>>
    /\ UNCHANGED <<dcfVars, ratioVars>>

Tick(d) ==
    /\ now + d <= MaxTicks * (TTL \div 2)
    /\ now' = now + d
    /\ UNCHANGED <<hasLock, lock, cache, loads, lastOk, pc, req, callAt, seenEntry,
                   seenOk, invoked, cause, result, view>>
    /\ UNCHANGED <<dcfVars, ratioVars>>

----------------------------------------------------------------------------
(* Values of the provider's info dict and Python's handling of them *)

Absent == [tag |-> "absent", v |-> 0]
Null == [tag |-> "null", v |-> 0]
Num(n) == [tag |-> "num", v |-> n]
NA == [tag |-> "N/A", v |-> 0]

\* info.get(key, default)
Get(field, default) == IF field.tag = "absent" THEN default ELSE field
\* Python truthiness of a number or None
Truthy(x) == x.tag = "num" /\ x.v # 0
\* a / b for b # 0, fixed point (toward minus infinity on the magnitude's sign)
Div(a, b) == IF b > 0 THEN a \div b ELSE (0 - a) \div (0 - b)

----------------------------------------------------------------------------
(* main(): sliders, the KPI price tile and the DCF tab *)

\* st.slider("Terminal Growth (%)", 0.0, 5.0, 2.0), in basis points
GrowthMin == 0
GrowthMax == 500
\* st.slider("WACC / Discount Rate (%)", 5.0, 15.0, 8.0), in basis points
WaccMin == 500
WaccMax == 1500
\* 100 % in basis points
One == 10000
\* the exponent of (1 + wacc)**5
Years == 5

GrowthChoices == {GrowthMin, 250, GrowthMax}
WaccChoices == {WaccMin, 850, WaccMax}
PriceChoices == {Absent, Null, Num(0), Num(10)}
FcfChoices == {Absent, Null, Num(0 - 50), Num(0), Num(100)}
SharesChoices == {Absent, Null, Num(0 - 2), Num(0), Num(4)}

NoDcf == [out |-> "pending", exc |-> "none", line |-> 0, fair |-> NA, upside |-> NA]
Raised(e, l) == [out |-> "exception", exc |-> e, line |-> l, fair |-> NA, upside |-> NA]

\* x / (1 + wacc)**n
RECURSIVE Discount(_, _, _)
Discount(x, w, n) == IF n = 0 THEN x ELSE Discount(Div(x * One, One + w), w, n - 1)

\* line 162: if fcf > 0
PositiveFcfOrZero(fcf) == fcf.v >= 0
PositiveFcf(fcf) == fcf.v > 0

\* lines 161-170, statement by statement; an exception leaves the tab
\* without the metric
TabDcf(info, g, w, p) ==
    LET fcf == Get(info.freeCashflow, Num(0))
        shares == Get(info.sharesOutstanding, Num(1))
    IN IF fcf.tag = "null" THEN Raised("TypeError", 162)
       ELSE IF ~PositiveFcf(fcf)
       THEN [out |-> "warning_positive_fcf_required", exc |-> "none", line |-> 170,
             fair |-> NA, upside |-> NA]
       ELSE IF w - g = 0 THEN Raised("ZeroDivisionError", 164)
       ELSE LET term_val == Div(fcf.v * (One + g), w - g)
                intrinsic == Discount(fcf.v + term_val, w, Years)
            IN IF shares.tag = "null" THEN Raised("TypeError", 166)
               ELSE IF shares.v = 0 THEN Raised("ZeroDivisionError", 166)
               ELSE LET fair_price == Div(intrinsic, shares.v)
                    IN IF p.v = 0 THEN Raised("ZeroDivisionError", 167)
                       ELSE [out |-> "fair_value", exc |-> "none", line |-> 168,
                             fair |-> Num(fair_price),
                             upside |-> Num(Div(fair_price * 100, p.v) - 100)]

InitDcf ==
    /\ dpc = "kpi"
    /\ dinfo \in [currentPrice : PriceChoices, freeCashflow : FcfChoices,
                  sharesOutstanding : SharesChoices]
    /\ t_growth \in GrowthChoices
    /\ wacc \in WaccChoices
    /\ price = Absent
    /\ dcf = NoDcf

\* lines 112-114: price = info.get('currentPrice', 0), formatted for the tile
KpiTiles ==
    /\ dpc = "kpi"
    /\ price' = Get(dinfo.currentPrice, Num(0))
    /\ dpc' = IF price'.tag = "null" THEN "crashed" ELSE "tabs"
    /\ UNCHANGED <<dinfo, t_growth, wacc, dcf>>
    /\ UNCHANGED <<cacheVars, ratioVars>>

\* lines 159-170
DcfTab ==
    /\ dpc = "tabs"
    /\ dcf' = TabDcf(dinfo, t_growth, wacc, price)
    /\ dpc' = IF dcf'.out = "exception" THEN "crashed" ELSE "done"
    /\ UNCHANGED <<dinfo, t_growth, wacc, price>>
    /\ UNCHANGED <<cacheVars, ratioVars>>

\* the user moves a slider or the data changes: the script reruns
Rerun ==
    /\ dpc \in {"done", "crashed"}
    /\ dpc' = "kpi"
    /\ t_growth' \in GrowthChoices
    /\ wacc' \in WaccChoices
    /\ price' = Absent
    /\ dcf' = NoDcf
    /\ UNCHANGED dinfo
    /\ UNCHANGED <<cacheVars, ratioVars>>

----------------------------------------------------------------------------
(* QuantEngine.compute_ratios and the ratio tab *)

EbitdaChoices == {Absent, Null, Num(0), Num(40)}
EvChoices == {Absent, Null, Num(120)}
NetIncomeChoices == {Absent, Null, Num(0), Num(30)}
MarginChoices == {Absent, Null, Num(25)}
PEChoices == {Absent, Null, Num(18)}
\* a statement row: not in the frame's index, or its latest value
RowChoices == {Absent, Num(0), Num(200)}

NoRatios == [kind |-> "pending"]
NoneRatios == [kind |-> "None"]

\* get_val(df, row): df.loc[row][0] if row in df.index else 0
get_val(row) == IF row.tag = "absent" THEN Num(0) ELSE row

\* round(a / b, 2), or TypeError when an operand is None
Quotient(a, b, scale) ==
    IF a.tag = "null" \/ b.tag = "null" THEN [tag |-> "TypeError", v |-> 0]
    ELSE Num(Div(a.v * scale, b.v))

\* lines 56-86: the dict, or None when any expression in it raised
compute_ratios(info, statements) ==
    LET equity == get_val(statements.equity)
        assets == get_val(statements.assets)
        net_income == Get(info.netIncomeToCommon, Num(0))
        ebitda == Get(info.ebitda, Num(0))
        ev == Get(info.enterpriseValue, Num(0))
        margin == Get(info.profitMargins, Num(0))
        ev_ebitda == IF Truthy(ebitda) THEN Quotient(ev, ebitda, 100) ELSE NA
        roe == IF Truthy(equity) THEN Quotient(net_income, equity, 10000) ELSE NA
        roa == IF Truthy(assets) THEN Quotient(net_income, assets, 10000) ELSE NA
        pm == IF margin.tag = "null" THEN [tag |-> "TypeError", v |-> 0]
              ELSE Num(margin.v * 100)
    IN IF "TypeError" \in {ev_ebitda.tag, roe.tag, roa.tag, pm.tag}
       THEN NoneRatios
       ELSE [kind |-> "dict",
             PE |-> Get(info.trailingPE, NA),
             EV_EBITDA |-> ev_ebitda,
             ROE |-> roe,
             ROA |-> roa,
             ProfitMargin |-> pm]

InitRatios ==
    /\ rpc = "tab"
    /\ rinfo \in [ebitda : EbitdaChoices, enterpriseValue : EvChoices,
                  netIncomeToCommon : NetIncomeChoices, profitMargins : MarginChoices,
                  trailingPE : PEChoices]
    /\ rstmt \in [equity : RowChoices, assets : RowChoices]
    /\ r_data = NoRatios
    /\ shown = {}

\* line 150
ComputeRatios ==
    /\ rpc = "tab"
    /\ r_data' = compute_ratios(rinfo, rstmt)
    /\ rpc' = "computed"
    /\ UNCHANGED <<rinfo, rstmt, shown>>
    /\ UNCHANGED <<cacheVars, dcfVars>>

\* lines 151-157: "if r_data" renders one tile per metric, else nothing
RenderRatios ==
    /\ rpc = "computed"
    /\ shown' = IF r_data.kind = "dict"
                THEN {"P/E", "EV/EBITDA", "ROE (%)", "ROA (%)", "Profit Margin"}
                ELSE {}
    /\ rpc' = "done"
    /\ UNCHANGED <<rinfo, rstmt, r_data>>
    /\ UNCHANGED <<cacheVars, dcfVars>>

\* the next rerun of the script
RerunRatios ==
    /\ rpc = "done"
    /\ rpc' = "tab"
    /\ r_data' = NoRatios
    /\ shown' = {}
    /\ UNCHANGED <<rinfo, rstmt>>
    /\ UNCHANGED <<cacheVars, dcfVars>>

----------------------------------------------------------------------------
(* Specifications *)

\* the parts of the state a specification does not move
IdleCache ==
    /\ InitCache
    /\ hasLock = FALSE
IdleDcf ==
    /\ dpc = "kpi"
    /\ dinfo = [currentPrice |-> Absent, freeCashflow |-> Absent, sharesOutstanding |-> Absent]
    /\ t_growth = GrowthMin
    /\ wacc = WaccMin
    /\ price = Absent
    /\ dcf = NoDcf
IdleRatios ==
    /\ rpc = "tab"
    /\ rinfo = [ebitda |-> Absent, enterpriseValue |-> Absent, netIncomeToCommon |-> Absent,
                profitMargins |-> Absent, trailingPE |-> Absent]
    /\ rstmt = [equity |-> Absent, assets |-> Absent]
    /\ r_data = NoRatios
    /\ shown = {}

\* sessions run the script concurrently against the process-wide cache
Init == InitCache /\ IdleDcf /\ IdleRatios
Next ==
    \/ \E s \in Sessions, k \in Tickers : Call(s, k)
    \/ \E s \in Sessions : LockedMiss(s)
    \/ \E s \in Sessions : UnlockedMiss(s)
    \/ \E s \in Sessions, o \in Upstream : FinishLoad(s, o)
    \/ \E s \in Sessions : Branch(s)
    \/ \E d \in Deltas : Tick(d)
Spec == Init /\ [][Next]_vars

\* one session: every call returns before the next is made
NextSeq ==
    \/ \E k \in Tickers : Call(1, k)
    \/ LockedMiss(1)
    \/ UnlockedMiss(1)
    \/ \E o \in Upstream : FinishLoad(1, o)
    \/ Branch(1)
    \/ \E d \in Deltas : Tick(d)
SpecSeq == Init /\ [][NextSeq]_vars

InitDCF == IdleCache /\ InitDcf /\ IdleRatios
NextDCF == KpiTiles \/ DcfTab \/ Rerun
SpecDCF == InitDCF /\ [][NextDCF]_vars

InitRatio == IdleCache /\ IdleDcf /\ InitRatios
NextRatio == ComputeRatios \/ RenderRatios \/ RerunRatios
SpecRatios == InitRatio /\ [][NextRatio]_vars

----------------------------------------------------------------------------
(* Properties of the cache and of fetch_terminal_bundle *)

Returned(s) == pc[s] = "returned"

\* C1: in a run of calls made one after the other, a call made within ttl
\* of the key's last successful load returns the bundle that load stored
\* and starts no upstream load; a call made when the key has no entry, or
\* when ttl has elapsed since its entry was stored, starts exactly one
\* upstream load and does not return the expired bundle.
C1_HitWithinTtlReloadAfter ==
    \A s \in Sessions :
        Returned(s) =>
            /\ (seenOk[s].set /\ callAt[s] - seenOk[s].at < TTL)
                   => (result[s] = seenOk[s].bundle /\ invoked[s] = 0)
            /\ (seenEntry[s].kind = "absent" \/ callAt[s] - seenEntry[s].at >= TTL)
                   => /\ invoked[s] = 1
                      /\ seenEntry[s].value.kind = "bundle" => result[s] # seenEntry[s].value

\* a call that found an expired bundle, ran the upstream load and returned
\* the new bundle
C1_Witness ==
    \E s \in Sessions :
        /\ Returned(s)
        /\ seenEntry[s].kind = "entry"
        /\ seenEntry[s].value.kind = "bundle"
        /\ callAt[s] - seenEntry[s].at >= TTL
        /\ invoked[s] = 1
        /\ result[s].kind = "bundle"

\* a call served from the cache one second before the entry expires
C1_WitnessHit ==
    \E s \in Sessions :
        /\ Returned(s)
        /\ seenOk[s].set
        /\ callAt[s] - seenOk[s].at = TTL - 1
        /\ invoked[s] = 0
        /\ result[s] = seenOk[s].bundle

\* C2: a failed load (exception or empty price history) stores nothing, so
\* a call that returns the failure value has run the upstream load itself:
\* a failure is never served from the cache.
C2_FailureNotCached ==
    \A s \in Sessions :
        (Returned(s) /\ result[s].kind = "None") => invoked[s] = 1

\* C3: calls for the same key that overlap while the key has no valid entry
\* share one upstream load: no two loads for one key are in flight together.
C3_SingleFlight ==
    \A s1, s2 \in Sessions :
        (s1 # s2 /\ pc[s1] = "loading" /\ pc[s2] = "loading") => req[s1] # req[s2]

\* C7: a call whose upstream load raised returns an explicit error outcome,
\* never the empty value that an unknown ticker (empty history) returns.
C7_FetchErrorExplicit ==
    \A s \in Sessions :
        (Returned(s) /\ cause[s] = "exception")
            => /\ result[s].kind # "None"
               /\ result[s] # FetchBody("empty_history", result[s].ver)

----------------------------------------------------------------------------
(* Properties of the DCF tab *)

DcfRan == dcf.out # "pending"
Fcf == dinfo.freeCashflow
Shares == dinfo.sharesOutstanding

\* C4: with discount rate <= growth rate (the sliders allow 5 % and 5 %) the
\* projection ends in the domain failure: it yields no fair value and does
\* not divide by the zero spread.
C4_SpreadGuard ==
    (DcfRan /\ wacc <= t_growth)
        => /\ ~(dcf.exc = "ZeroDivisionError" /\ dcf.line = 164)
           /\ dcf.fair = NA

\* C5: when freeCashflow is zero, negative or absent the DCF tab ends in its
\* explicit "positive FCF required" outcome with no fair value, and a fair
\* value is shown only if freeCashflow > 0.
C5_NonPositiveBase ==
    DcfRan =>
        /\ (Fcf.tag = "absent" \/ (Fcf.tag = "num" /\ Fcf.v <= 0))
               => (dcf.out = "warning_positive_fcf_required" /\ dcf.fair = NA /\ dcf.exc = "none")
        /\ dcf.fair.tag = "num" => (Fcf.tag = "num" /\ Fcf.v > 0)

\* the tab has run on a negative free cash flow and shown the warning
C5_Witness ==
    /\ DcfRan
    /\ Fcf.tag = "num"
    /\ Fcf.v < 0
    /\ dcf.out = "warning_positive_fcf_required"

\* C8: with a valid projection (positive cash flow, positive shares,
\* discount above growth) and no current price, or a zero one, the tab
\* still yields the fair value, yields no upside, and raises nothing.
C8_UpsideOnlyWithPrice ==
    (/\ DcfRan
     /\ Fcf.tag = "num" /\ Fcf.v > 0
     /\ Shares.tag = "num" /\ Shares.v > 0
     /\ wacc > t_growth
     /\ price.v = 0)
        => /\ dcf.exc = "none"
           /\ dcf.fair.tag = "num"
           /\ dcf.upside = NA

\* C9: a fair value per share is produced only from a supplied, strictly
\* positive sharesOutstanding; otherwise the tab fails without dividing by
\* zero and without substituting a share count.
C9_SharesPositive ==
    (DcfRan /\ ~(Shares.tag = "num" /\ Shares.v > 0))
        => /\ dcf.fair = NA
           /\ ~(dcf.exc = "ZeroDivisionError" /\ dcf.line = 166)

----------------------------------------------------------------------------
(* Properties of compute_ratios *)

RatiosRan == rpc # "tab"
ZeroOrAbsent(x) == x.tag = "absent" \/ (x.tag = "num" /\ x.v = 0)
Missing(x) == x.tag \in {"absent", "null"}

\* C6: a ratio whose denominator (ebitda, stockholders equity, total assets)
\* is zero or absent is marked "N/A" in the returned set, and a number is
\* given for a ratio only when its denominator is present and non-zero.
C6_DenominatorGuard ==
    RatiosRan =>
        /\ ZeroOrAbsent(rinfo.ebitda) => (r_data.kind = "dict" /\ r_data.EV_EBITDA = NA)
        /\ ZeroOrAbsent(rstmt.equity) => (r_data.kind = "dict" /\ r_data.ROE = NA)
        /\ ZeroOrAbsent(rstmt.assets) => (r_data.kind = "dict" /\ r_data.ROA = NA)
        /\ r_data.kind = "dict" =>
               /\ r_data.EV_EBITDA.tag = "num" => ~ZeroOrAbsent(rinfo.ebitda)
               /\ r_data.ROE.tag = "num" => ~ZeroOrAbsent(rstmt.equity)
               /\ r_data.ROA.tag = "num" => ~ZeroOrAbsent(rstmt.assets)

\* C10: compute_ratios always returns the set; a ratio whose numerator is
\* missing or null carries the "N/A" marker in it, the other ratios stay.
C10_GapsInline ==
    RatiosRan =>
        /\ r_data.kind = "dict"
        /\ Missing(rinfo.enterpriseValue) => r_data.EV_EBITDA = NA
        /\ Missing(rinfo.netIncomeToCommon) => (r_data.ROE = NA /\ r_data.ROA = NA)

====
